---------------------------- MODULE Spec2Model ----------------------------
(***************************************************************************)
(* Model of the evdev joystick tester (Compyx/evdev-js-test).              *)
(*                                                                         *)
(* Part 1: the poll engine of src/src/event-widget.c: the poll_data        *)
(* object, event_widget_start_poll(), event_widget_stop_poll() and the     *)
(* timer callback poll_worker(), together with the process' descriptor     *)
(* table and the libevdev event queue the callback reads.                  *)
(*                                                                         *)
(* Part 2: device discovery of src/src/joystick.c: the code name tables,   *)
(* the GUID generator, the capability scan that builds a descriptor, the   *)
(* devices list with its scan and sort, and descriptor duplication, on a   *)
(* heap of allocated blocks.                                               *)
(***************************************************************************)
EXTENDS Integers, Sequences, FiniteSets, TLC

(***************************************************************************)
(* Bounds of the model.                                                    *)
(***************************************************************************)
\* number of device descriptors the UI can hand to the engine
NumDevices == 2
\* size of the process' descriptor table (RLIMIT_NOFILE): open() fails when full
MaxFds == 4
\* longest batch of events queued on the stream when a drive cycle of the engine runs
MaxQueued == 1
\* longest batch of events the event loop is run on by itself
MaxPending == 3
\* number of drive cycles after a request whose callbacks are recorded
MaxObserved == 3

(***************************************************************************)
(* Program constants.                                                      *)
(***************************************************************************)
POLL_STATE_IDLE     == 0
POLL_STATE_START    == 1
POLL_STATE_POLL     == 2
POLL_STATE_STOP     == 3
POLL_STATE_TEARDOWN == 4

EV_SYN == 0
EV_KEY == 1
EV_ABS == 3

\* a null pointer; a non-null pointer to object x is <<x>>
NULL == <<>>

Devices == 1 .. NumDevices

(***************************************************************************)
(* The descriptors the UI holds (joy_dev_info_t): the button and axis maps *)
(* the presentation layer is built from.  Device 1 has one button and one  *)
(* axis, every other device has no button and two axes.                    *)
(***************************************************************************)
button_map(d) == IF d = 1 THEN <<288>> ELSE <<>>
axis_map(d)   == IF d = 1 THEN <<0>> ELSE <<0, 1>>
num_buttons(d) == Len(button_map(d))
num_axes(d)    == Len(axis_map(d))

(***************************************************************************)
(* Events a device stream can deliver: a key event for the button of       *)
(* device 1, an absolute event for the second axis of the other devices    *)
(* (a code the axis map of device 1 lacks), and a report marker.           *)
(* sync = TRUE marks an event that                                         *)
(* libevdev hands out with LIBEVDEV_READ_STATUS_SYNC: the SYN_DROPPED      *)
(* marker and the events of the re-synchronisation burst that follows it.  *)
(***************************************************************************)
RawEvents ==
    { [type |-> EV_KEY, code |-> 288, value |-> 1],
      [type |-> EV_ABS, code |-> 1,   value |-> 1],
      [type |-> EV_SYN, code |-> 0,   value |-> 0] }

StreamEvents ==
    { [type |-> e.type, code |-> e.code, value |-> e.value, sync |-> s] :
        e \in RawEvents, s \in BOOLEAN }

\* the events the engine's cycles are run on: of a burst only its markers
EngineEvents == { e \in StreamEvents : ~e.sync \/ e.type = EV_SYN }

SeqsUpTo(S, n) == UNION { [1 .. k -> S] : k \in 0 .. n }

Pendings == SeqsUpTo(StreamEvents, MaxPending)

VARIABLES
    poll_data,  \* the poll_data_t object
    fdtable,    \* open descriptors of the process: fd -> device (0: not a device node)
    timer,      \* TRUE while GLib keeps the timeout source of poll_worker
    run,        \* "ok", or how the main loop ended: "hung" or "crashed"
    req,        \* the last request made of the engine
    trail,      \* what each of the first MaxObserved drive cycles after req reported
    cbs,        \* the callbacks fired by the latest drive cycle
    consumed    \* the events the latest drive cycle found queued on the stream

\* the state of joystick.c and of the allocator
VARIABLES
    heap,          \* the allocated blocks: address -> block
    devices_list,  \* static devices_list: NULL or <<address of the list block>>
    devices_count, \* static devices_count
    lastcall,      \* the last call made of joystick.c: its arguments and results
    rows           \* the descriptor copies the rows of the device list own

joyvars == <<heap, devices_list, devices_count, lastcall, rows>>

enginevars == <<poll_data, fdtable, timer, run, req, trail, cbs, consumed>>

vars == <<poll_data, fdtable, timer, run, req, trail, cbs, consumed,
          heap, devices_list, devices_count, lastcall, rows>>

\* joystick.c before its first call: the statics are zero, nothing is allocated
JoyInit ==
    /\ heap          = <<>>
    /\ devices_list  = NULL
    /\ devices_count = 0
    /\ lastcall      = [fn |-> "none"]
    /\ rows          = {}


(***************************************************************************)
(* Callbacks into the presentation layer, as the drive cycle fires them.   *)
(* dev is the device the call is about: for a button or axis call the      *)
(* device whose stream the event was read from.  set tells whether the     *)
(* call changed the state of a widget.                                     *)
(***************************************************************************)
Callback(cb, dev, code, value, set) ==
    [cb |-> cb, dev |-> dev, code |-> code, value |-> value, set |-> set]

\* app_window_message("Stopped polling.")
on_poll_stopped == Callback("stopped", 0, 0, 0, FALSE)

\* event_widget_set_device(pd->cur_device)
on_device_ready(dev) == Callback("ready", dev[1], 0, 0, FALSE)

(***************************************************************************)
(* The descriptor table: open(2) returns the lowest free descriptor, or    *)
(* -1 when the call fails or the table is full; close(2) frees one.        *)
(***************************************************************************)
FreeFds(fds) == (0 .. MaxFds - 1) \ DOMAIN fds

LowestFree(fds) == CHOOSE f \in FreeFds(fds) : \A g \in FreeFds(fds) : f <= g

open(fds, ok) == IF ok /\ FreeFds(fds) # {} THEN LowestFree(fds) ELSE -1

Opened(fds, fd, d) ==
    [f \in DOMAIN fds \cup {fd} |-> IF f = fd THEN d ELSE fds[f]]

close(fds, fd) == [f \in DOMAIN fds \ {fd} |-> fds[f]]

(***************************************************************************)
(* update_button() and update_axis(): look the event's code up in the map  *)
(* of the current device and set the widget of the first match.  The loop  *)
(* condition is the map's length itself, so the scan only ends at a match: *)
(* with a non-empty map that lacks the code it reads past the map's end    *)
(* (fault).                                                                *)
(***************************************************************************)
RECURSIVE scan_map(_, _, _)
scan_map(map, code, i) ==
    IF i >= Len(map) THEN -1
    ELSE IF map[i + 1] = code THEN i
    ELSE scan_map(map, code, i + 1)

update_button(dev, ev) ==
    IF dev = NULL THEN [set |-> FALSE, fault |-> FALSE]
    ELSE IF num_buttons(dev[1]) = 0 THEN [set |-> FALSE, fault |-> FALSE]
    ELSE IF scan_map(button_map(dev[1]), ev.code, 0) >= 0
         THEN [set |-> TRUE, fault |-> FALSE]
         ELSE [set |-> FALSE, fault |-> TRUE]

update_axis(dev, ev) ==
    IF dev = NULL THEN [set |-> FALSE, fault |-> FALSE]
    ELSE IF num_axes(dev[1]) = 0 THEN [set |-> FALSE, fault |-> FALSE]
    ELSE IF scan_map(axis_map(dev[1]), ev.code, 0) >= 0
         THEN [set |-> TRUE, fault |-> FALSE]
         ELSE [set |-> FALSE, fault |-> TRUE]

(***************************************************************************)
(* event_widget_update(): dispatch one event read from the stream of       *)
(* device src by its type, then record it as the previous event.  When     *)
(* the dispatch faults the function never gets to record it.               *)
(***************************************************************************)
\* faulty variant: every event that is not a key event goes to the axis callback
event_widget_update_else_axis(pd, ev, src) ==
    LET u == IF ev.type = EV_KEY THEN update_button(pd.cur_device, ev)
             ELSE update_axis(pd.cur_device, ev)
        call == IF ev.type = EV_KEY
                THEN <<Callback("button", src, ev.code, ev.value, u.set)>>
                ELSE <<Callback("axis", src, ev.code, ev.value, u.set)>>
    IN  [pd    |-> IF u.fault THEN pd
                   ELSE [pd EXCEPT !.prev_type  = ev.type,
                                   !.prev_code  = ev.code,
                                   !.prev_value = ev.value],
         cbs   |-> call,
         fault |-> u.fault]

event_widget_update(pd, ev, src) ==
    LET u == IF ev.type = EV_KEY THEN update_button(pd.cur_device, ev)
             ELSE IF ev.type = EV_ABS THEN update_axis(pd.cur_device, ev)
             ELSE [set |-> FALSE, fault |-> FALSE]
        call == IF ev.type = EV_KEY
                THEN <<Callback("button", src, ev.code, ev.value, u.set)>>
                ELSE IF ev.type = EV_ABS
                THEN <<Callback("axis", src, ev.code, ev.value, u.set)>>
                ELSE <<>>
    IN  [pd    |-> IF u.fault THEN pd
                   ELSE [pd EXCEPT !.prev_type  = ev.type,
                                   !.prev_code  = ev.code,
                                   !.prev_value = ev.value],
         cbs   |-> call,
         fault |-> u.fault]

(***************************************************************************)
(* libevdev_next_event() on a queue q of events.  rc is "SUCCESS", "SYNC"  *)
(* or "EAGAIN"; rest is the queue after the call.  With the normal flag    *)
(* the head is handed out, as SYNC when it opens a dropped burst; with the *)
(* sync flag only events of the burst are handed out.                      *)
(***************************************************************************)
libevdev_next_event(q, syncflag) ==
    IF q = <<>> THEN [rc |-> "EAGAIN", rest |-> q]
    ELSE IF Head(q).sync THEN [rc |-> "SYNC", ev |-> Head(q), rest |-> Tail(q)]
    ELSE IF syncflag THEN [rc |-> "EAGAIN", rest |-> q]
    ELSE [rc |-> "SUCCESS", ev |-> Head(q), rest |-> Tail(q)]

\* the inner loop of poll_worker: read with the sync flag while the status is SYNC
RECURSIVE resync(_)
resync(q) ==
    LET n == libevdev_next_event(q, TRUE)
    IN  IF n.rc = "SYNC" THEN resync(n.rest) ELSE n.rest


(***************************************************************************)
(* poll_worker(), one operator per case of its switch.  Each returns the   *)
(* poll data and descriptor table it leaves, the callbacks it fired, what  *)
(* the cycle amounted to (note), whether it asked GLib to remove the       *)
(* timeout source, and whether it came back at all: fault is "none",       *)
(* "spin" (the event loop never ends) or "ub" (a read past a map's end).   *)
(***************************************************************************)
Outcome(pd, fds, fired, note, remove, fault) ==
    [pd |-> pd, fds |-> fds, cbs |-> fired, note |-> note,
     remove |-> remove, fault |-> fault]

\* faulty variant: a pending device does not interrupt anything
preempt_never(pd) == pd

\* faulty variant: a device requested while polling replaces the current
\* device in place, without stopping and reopening the stream
preempt_switches_in_place(pd) ==
    IF pd.new_device # NULL /\ pd.state = POLL_STATE_POLL
    THEN [pd EXCEPT !.cur_device = pd.new_device, !.new_device = NULL]
    ELSE IF pd.new_device # NULL /\ pd.state # POLL_STATE_IDLE
    THEN [pd EXCEPT !.state = POLL_STATE_STOP]
    ELSE pd

\* a pending device forces every state but idle to STOP
preempt(pd) ==
    IF pd.new_device # NULL /\ pd.state # POLL_STATE_IDLE
    THEN [pd EXCEPT !.state = POLL_STATE_STOP]
    ELSE pd

\* faulty variant: the pending device is bound but not cleared
worker_IDLE_keeps_pending(pd, fds) ==
    IF pd.new_device # NULL
    THEN Outcome([pd EXCEPT !.cur_device = pd.new_device,
                            !.state      = POLL_STATE_START],
                 fds, <<>>, "bound", FALSE, "none")
    ELSE Outcome(pd, fds, <<>>, "none", FALSE, "none")

worker_IDLE(pd, fds) ==
    IF pd.new_device # NULL
    THEN Outcome([pd EXCEPT !.cur_device = pd.new_device,
                            !.new_device = NULL,
                            !.state      = POLL_STATE_START],
                 fds, <<>>, "bound", FALSE, "none")
    ELSE Outcome(pd, fds, <<>>, "none", FALSE, "none")

\* faulty variant: the libevdev object is not released
worker_STOP_keeps_evdev(pd, fds) ==
    Outcome([pd EXCEPT !.fd         = IF pd.fd >= 0 THEN -1 ELSE pd.fd,
                       !.cur_device = NULL,
                       !.state      = POLL_STATE_IDLE],
            IF pd.fd >= 0 THEN close(fds, pd.fd) ELSE fds,
            <<on_poll_stopped>>, "stopped", FALSE, "none")

\* faulty variant: the descriptor is forgotten without being closed
worker_STOP_no_close(pd, fds) ==
    Outcome([pd EXCEPT !.evdev      = NULL,
                       !.fd         = IF pd.fd >= 0 THEN -1 ELSE pd.fd,
                       !.cur_device = NULL,
                       !.state      = POLL_STATE_IDLE],
            fds, <<on_poll_stopped>>, "stopped", FALSE, "none")

\* faulty variant: stopping also drops the pending device
worker_STOP_drops_pending(pd, fds) ==
    Outcome([pd EXCEPT !.evdev      = NULL,
                       !.fd         = IF pd.fd >= 0 THEN -1 ELSE pd.fd,
                       !.cur_device = NULL,
                       !.new_device = NULL,
                       !.state      = POLL_STATE_IDLE],
            IF pd.fd >= 0 THEN close(fds, pd.fd) ELSE fds,
            <<on_poll_stopped>>, "stopped", FALSE, "none")

worker_STOP(pd, fds) ==
    Outcome([pd EXCEPT !.evdev      = NULL,
                       !.fd         = IF pd.fd >= 0 THEN -1 ELSE pd.fd,
                       !.cur_device = NULL,
                       !.state      = POLL_STATE_IDLE],
            IF pd.fd >= 0 THEN close(fds, pd.fd) ELSE fds,
            <<on_poll_stopped>>, "stopped", FALSE, "none")

worker_TEARDOWN(pd, fds) ==
    Outcome(pd, fds, <<>>, "removed", TRUE, "none")

\* faulty variant: a failed open leaves the engine in START, to try again
worker_START_retries(pd, fds, openOk, initOk) ==
    LET info == pd.cur_device
        nfd  == open(fds, openOk)
    IN  IF nfd < 0
        THEN Outcome([pd EXCEPT !.fd = nfd],
                     fds, <<>>, "failed", FALSE, "none")
        ELSE IF ~initOk
        THEN Outcome([pd EXCEPT !.fd = nfd, !.state = POLL_STATE_IDLE],
                     Opened(fds, nfd, info[1]), <<>>, "failed", FALSE, "none")
        ELSE Outcome([pd EXCEPT !.fd    = nfd,
                                !.evdev = <<nfd>>,
                                !.state = POLL_STATE_POLL],
                     Opened(fds, nfd, info[1]),
                     <<on_device_ready(pd.cur_device)>>, "ready", FALSE, "none")

worker_START(pd, fds, openOk, initOk) ==
    LET info == pd.cur_device
        nfd  == open(fds, openOk)
    IN  IF nfd < 0
        THEN Outcome([pd EXCEPT !.fd = nfd, !.state = POLL_STATE_IDLE],
                     fds, <<>>, "failed", FALSE, "none")
        ELSE IF ~initOk
        THEN Outcome([pd EXCEPT !.fd = nfd, !.state = POLL_STATE_IDLE],
                     Opened(fds, nfd, info[1]), <<>>, "failed", FALSE, "none")
        ELSE Outcome([pd EXCEPT !.fd    = nfd,
                                !.evdev = <<nfd>>,
                                !.state = POLL_STATE_POLL],
                     Opened(fds, nfd, info[1]),
                     <<on_device_ready(pd.cur_device)>>, "ready", FALSE, "none")

(***************************************************************************)
(* The event loop of the POLL case on the queue q of the stream of device  *)
(* src.  gone: the device node has gone away, so every read fails          *)
(* (libevdev_next_event() reads the descriptor before it hands out an      *)
(* event) while libevdev_has_event_pending() keeps reporting the           *)
(* descriptor as ready: the loop neither ends nor forwards anything.       *)
(***************************************************************************)
RECURSIVE poll_loop(_, _, _, _, _)
poll_loop(pd, q, src, gone, acc) ==
    IF gone
    THEN [pd |-> pd, cbs |-> acc, fault |-> "spin"]
    ELSE IF q = <<>>
    THEN [pd |-> pd, cbs |-> acc, fault |-> "none"]
    ELSE LET n == libevdev_next_event(q, FALSE)
         IN  IF n.rc = "SYNC"
             THEN poll_loop(pd, resync(n.rest), src, gone, acc)
             ELSE IF n.rc = "SUCCESS"
             THEN LET u == event_widget_update(pd, n.ev, src)
                  IN  IF u.fault
                      THEN [pd |-> u.pd, cbs |-> acc \o u.cbs, fault |-> "ub"]
                      ELSE poll_loop(u.pd, n.rest, src, gone, acc \o u.cbs)
             ELSE poll_loop(pd, n.rest, src, gone, acc)

\* faulty variant: the read status is ignored, every event read is dispatched
worker_POLL_ignores_status(pd, fds, pending, gone) ==
    IF pd.evdev = NULL
    THEN Outcome(pd, fds, <<>>, "none", FALSE, "ub")
    ELSE LET all == [i \in DOMAIN pending |-> [pending[i] EXCEPT !.sync = FALSE]]
             l   == poll_loop(pd, all, fds[pd.evdev[1]], gone, <<>>)
         IN  Outcome(l.pd, fds, l.cbs,
                     IF l.cbs # <<>> THEN "forward" ELSE "none",
                     FALSE, l.fault)

worker_POLL(pd, fds, pending, gone) ==
    IF pd.evdev = NULL
    THEN Outcome(pd, fds, <<>>, "none", FALSE, "ub")
    ELSE LET l == poll_loop(pd, pending, fds[pd.evdev[1]], gone, <<>>)
         IN  Outcome(l.pd, fds, l.cbs,
                     IF l.cbs # <<>> THEN "forward" ELSE "none",
                     FALSE, l.fault)

worker(pd0, fds, openOk, initOk, pending, gone) ==
    LET pd == preempt(pd0)
    IN  CASE pd.state = POLL_STATE_IDLE     -> worker_IDLE(pd, fds)
          [] pd.state = POLL_STATE_STOP     -> worker_STOP(pd, fds)
          [] pd.state = POLL_STATE_TEARDOWN -> worker_TEARDOWN(pd, fds)
          [] pd.state = POLL_STATE_START    -> worker_START(pd, fds, openOk, initOk)
          [] pd.state = POLL_STATE_POLL     -> worker_POLL(pd, fds, pending, gone)

(***************************************************************************)
(* The record of the last request: the operation, its device and the      *)
(* state and device the engine was in when it was made.                    *)
(***************************************************************************)
Request(op, dev, pd) ==
    [op |-> op, dev |-> dev, pre |-> pd.state,
     precur |-> IF pd.cur_device = NULL THEN 0 ELSE pd.cur_device[1]]

(***************************************************************************)
(* The state after event_widget_new(): poll_data is a static object, so    *)
(* the members poll_lock_init() does not set (evdev, fd) are zero, and     *)
(* poll_lock_start_timeout() has registered the timeout source.  The       *)
(* process starts with the three standard descriptors open.                *)
(***************************************************************************)
poll_lock_init ==
    [source_id  |-> 1,
     evdev      |-> NULL,
     fd         |-> 0,
     new_device |-> NULL,
     cur_device |-> NULL,
     state      |-> POLL_STATE_IDLE,
     polling    |-> FALSE,
     prev_type  |-> -1,
     prev_code  |-> -1,
     prev_value |-> -1]

Init ==
    /\ poll_data = poll_lock_init
    /\ fdtable   = [f \in 0 .. 2 |-> 0]
    /\ timer     = TRUE
    /\ run       = "ok"
    /\ req       = Request("init", 0, poll_lock_init)
    /\ trail     = <<>>
    /\ cbs       = <<>>
    /\ consumed  = <<>>
    /\ JoyInit

(***************************************************************************)
(* The operations.  All run on the one thread of the GTK main loop, so     *)
(* none runs once the loop hangs or the process is gone.                   *)
(***************************************************************************)
event_widget_start_poll(device) ==
    /\ run = "ok"
    /\ poll_data' = [poll_data EXCEPT !.new_device = <<device>>]
    /\ req'   = Request("begin", device, poll_data)
    /\ trail' = <<>>
    /\ cbs'   = <<>>
    /\ consumed' = <<>>
    /\ UNCHANGED <<fdtable, timer, run>>
    /\ UNCHANGED joyvars

\* faulty variant: the stop is carried out inside the call, not by the next cycle
event_widget_stop_poll_at_once ==
    /\ run = "ok"
    /\ poll_data' = [poll_data EXCEPT !.state      = POLL_STATE_IDLE,
                                      !.evdev      = NULL,
                                      !.cur_device = NULL,
                                      !.fd         = IF poll_data.fd >= 0 THEN -1
                                                     ELSE poll_data.fd]
    /\ fdtable' = IF poll_data.fd >= 0 THEN close(fdtable, poll_data.fd) ELSE fdtable
    /\ req'   = Request("stop", 0, poll_data)
    /\ trail' = <<>>
    /\ cbs'   = <<>>
    /\ consumed' = <<>>
    /\ UNCHANGED <<timer, run>>
    /\ UNCHANGED joyvars

event_widget_stop_poll ==
    /\ run = "ok"
    /\ poll_data' = [poll_data EXCEPT !.state = POLL_STATE_STOP]
    /\ req'   = Request("stop", 0, poll_data)
    /\ trail' = <<>>
    /\ cbs'   = <<>>
    /\ consumed' = <<>>
    /\ UNCHANGED <<fdtable, timer, run>>
    /\ UNCHANGED joyvars

\* how the call ends: it returns, it never returns, or (undefined behaviour:
\* a scan that runs past the end of a map) it never returns or the process dies
Ends(fault) ==
    IF fault = "none" THEN {"ok"}
    ELSE IF fault = "spin" THEN {"hung"}
    ELSE {"hung", "crashed"}

poll_worker(openOk, initOk, pending, gone) ==
    /\ run = "ok"
    /\ timer
    /\ LET r == worker(poll_data, fdtable, openOk, initOk, pending, gone)
       IN  /\ poll_data' = r.pd
           /\ fdtable'   = r.fds
           /\ cbs'       = r.cbs
           /\ consumed'  = IF preempt(poll_data).state = POLL_STATE_POLL
                           THEN pending ELSE <<>>
           /\ timer'     = ~r.remove
           /\ run'       \in Ends(r.fault)
           /\ trail'     = IF Len(trail) < MaxObserved
                           THEN Append(trail, r.note)
                           ELSE trail
    /\ UNCHANGED req
    /\ UNCHANGED joyvars

\* the inputs the environment can give a drive cycle in the present state
OpenResults == IF poll_data.state = POLL_STATE_START THEN BOOLEAN ELSE {TRUE}
StreamGone  == IF poll_data.state = POLL_STATE_POLL THEN BOOLEAN ELSE {FALSE}
Queued(gone) == IF poll_data.state = POLL_STATE_POLL /\ ~gone
                THEN SeqsUpTo(EngineEvents, MaxQueued) ELSE {<<>>}

drive ==
    \E openOk \in OpenResults, initOk \in OpenResults, gone \in StreamGone :
      \E pending \in Queued(gone) :
        poll_worker(openOk, initOk, pending, gone)

Next ==
    \/ \E device \in Devices : event_widget_start_poll(device)
    \/ event_widget_stop_poll
    \/ drive

Spec == Init /\ [][Next]_vars

(***************************************************************************)
(* The event loop by itself: the engine has just started polling a device  *)
(* and its next drive cycle finds any batch of up to MaxPending events,    *)
(* bursts included, on the stream.                                         *)
(***************************************************************************)
InitDrain ==
    \E d \in Devices :
        /\ poll_data = [poll_lock_init EXCEPT !.state      = POLL_STATE_POLL,
                                              !.cur_device = <<d>>,
                                              !.fd         = 3,
                                              !.evdev      = <<3>>]
        /\ fdtable   = [f \in 0 .. 3 |-> IF f = 3 THEN d ELSE 0]
        /\ timer     = TRUE
        /\ run       = "ok"
        /\ req       = Request("begin", d, poll_lock_init)
        /\ trail     = <<"bound", "ready">>
        /\ cbs       = <<on_device_ready(<<d>>)>>
        /\ consumed  = <<>>
        /\ JoyInit

drain ==
    /\ trail = <<"bound", "ready">>
    /\ \E pending \in Pendings : poll_worker(TRUE, TRUE, pending, FALSE)

SpecDrain == InitDrain /\ [][drain]_vars

(***************************************************************************)
(* The host shutting down: the transition into the TEARDOWN state.  No     *)
(* function of the program makes it; it is taken from the design of the    *)
(* engine, which names it as a dedicated terminal transition.              *)
(***************************************************************************)
request_teardown ==
    /\ run = "ok"
    /\ poll_data.state # POLL_STATE_TEARDOWN
    /\ poll_data' = [poll_data EXCEPT !.state = POLL_STATE_TEARDOWN]
    /\ req'   = Request("teardown", 0, poll_data)
    /\ trail' = <<>>
    /\ cbs'   = <<>>
    /\ consumed' = <<>>
    /\ UNCHANGED <<fdtable, timer, run>>
    /\ UNCHANGED joyvars

NextTeardown == Next \/ request_teardown

SpecTeardown == Init /\ [][NextTeardown]_vars


(***************************************************************************)
(* Properties of the poll engine.                                          *)
(***************************************************************************)
\* descriptors open on a device node: only the engine opens those
EngineFds == { f \in DOMAIN fdtable : fdtable[f] # 0 }

\* the engine holds a stream handle: a libevdev object or an open descriptor
Held == poll_data.evdev # NULL \/ poll_data.fd \in EngineFds

\* the step is a drive cycle that came back
Cycle == drive /\ run' = "ok"

\* C1 as stated: a stream handle is held iff the phase is Starting or Polling
C1_HeldIffStartingOrPolling ==
    Held <=> poll_data.state \in {POLL_STATE_START, POLL_STATE_POLL}

\* C1 as amended: the libevdev object exists only in the phases Polling and
\* Stopping, and in Polling the engine holds it together with the open
\* descriptor it wraps
C1_EvdevOnlyPollingOrStopping ==
    /\ poll_data.evdev # NULL
          => poll_data.state \in {POLL_STATE_POLL, POLL_STATE_STOP}
    /\ poll_data.state = POLL_STATE_POLL
          => /\ poll_data.evdev = <<poll_data.fd>>
             /\ poll_data.fd \in EngineFds

C1_Witness ==
    /\ poll_data.state = POLL_STATE_STOP
    /\ poll_data.evdev # NULL
    /\ poll_data.fd \in EngineFds

\* C2: once the engine is back in Idle no descriptor it opened is still open
C2_NoStreamOpenInIdle ==
    poll_data.state = POLL_STATE_IDLE => EngineFds = {}

\* C3 as stated: from Idle, begin_poll(d) and ONE drive cycle in which the
\* stream can be opened leave the engine polling d with on_device_ready(d) fired
C3_PollingAfterOneCycle ==
    [][ ( /\ req.op = "begin" /\ req.pre = POLL_STATE_IDLE /\ trail = <<>>
          /\ FreeFds(fdtable) # {}
          /\ poll_worker(TRUE, TRUE, <<>>, FALSE) )
        => ( /\ poll_data'.state = POLL_STATE_POLL
             /\ poll_data'.cur_device = <<req.dev>>
             /\ cbs' = <<on_device_ready(<<req.dev>>)>> ) ]_vars

\* C3 as amended: from Idle, begin_poll(d) and TWO drive cycles, the second
\* opening the stream, leave the engine polling d; the first cycle fires no
\* callback and the second fires on_device_ready(d) and nothing else
C3_PollingAfterTwoCycles ==
    /\ [] ( (req.op = "begin" /\ req.pre = POLL_STATE_IDLE /\ Len(trail) = 1)
            => ( /\ poll_data.state = POLL_STATE_START
                 /\ poll_data.cur_device = <<req.dev>>
                 /\ poll_data.evdev = NULL
                 /\ cbs = <<>> ) )
    /\ [][ ( /\ req.op = "begin" /\ req.pre = POLL_STATE_IDLE /\ Len(trail) = 1
             /\ FreeFds(fdtable) # {}
             /\ poll_worker(TRUE, TRUE, <<>>, FALSE) )
           => ( /\ poll_data'.state = POLL_STATE_POLL
                /\ poll_data'.cur_device = <<req.dev>>
                /\ poll_data'.new_device = NULL
                /\ poll_data'.evdev = <<poll_data'.fd>>
                /\ fdtable'[poll_data'.fd] = req.dev
                /\ cbs' = <<on_device_ready(<<req.dev>>)>> ) ]_vars

C3_Witness ==
    /\ req.op = "begin" /\ req.pre = POLL_STATE_IDLE
    /\ trail = <<"bound", "ready">>
    /\ poll_data.state = POLL_STATE_POLL
    /\ cbs = <<on_device_ready(<<req.dev>>)>>

\* C4: from Polling, stop_poll() and one drive cycle leave the engine idle
\* with the stream closed and no current device, and the cycle fires
\* on_poll_stopped() once and nothing else
C4_IdleAfterStopCycle ==
    [][ (req.op = "stop" /\ req.pre = POLL_STATE_POLL /\ trail = <<>> /\ Cycle)
        => ( /\ poll_data'.state = POLL_STATE_IDLE
             /\ poll_data'.evdev = NULL
             /\ poll_data'.fd = -1
             /\ poll_data.fd \in EngineFds
             /\ poll_data.fd \notin DOMAIN fdtable'
             /\ poll_data'.cur_device = NULL
             /\ cbs' = <<on_poll_stopped>> ) ]_vars

C4_Witness ==
    /\ req.op = "stop" /\ req.pre = POLL_STATE_POLL
    /\ trail = <<"stopped">>
    /\ poll_data.state = POLL_STATE_IDLE
    /\ cbs = <<on_poll_stopped>>

\* C5: after begin_poll(new_d) made while Polling, the drive cycles are: one
\* Stopping cycle (on_poll_stopped), one cycle binding new_d, one cycle
\* starting it (on_device_ready(new_d) when the stream opens); no cycle
\* forwards an event before the device is ready and no second stop is reported
C5_StopThenReady ==
    (req.op = "begin" /\ req.pre = POLL_STATE_POLL) =>
        /\ Len(trail) >= 1 => trail[1] = "stopped"
        /\ Len(trail) >= 2 => trail[2] = "bound"
        /\ Len(trail) >= 3 => trail[3] \in {"ready", "failed"}
        /\ \A i \in DOMAIN trail :
              /\ i > 1 => trail[i] # "stopped"
              /\ i # 3 => trail[i] # "ready"
              /\ trail[i] = "forward" => (i > 3 /\ trail[3] = "ready")
        /\ Len(trail) = 1 => ( /\ poll_data.state = POLL_STATE_IDLE
                               /\ cbs = <<on_poll_stopped>>
                               /\ ~Held )
        /\ Len(trail) = 2 => ( /\ poll_data.state = POLL_STATE_START
                               /\ poll_data.cur_device = <<req.dev>>
                               /\ cbs = <<>> )
        /\ (Len(trail) >= 3 /\ trail[3] = "ready")
              => ( /\ poll_data.state = POLL_STATE_POLL
                   /\ poll_data.cur_device = <<req.dev>>
                   /\ \A i \in DOMAIN cbs : cbs[i].dev = req.dev )

C5_Witness ==
    /\ req.op = "begin" /\ req.pre = POLL_STATE_POLL /\ req.precur # req.dev
    /\ trail = <<"stopped", "bound", "ready">>
    /\ poll_data.state = POLL_STATE_POLL
    /\ cbs = <<on_device_ready(<<req.dev>>)>>


\* the events of a batch that were read with the status SUCCESS
Plain(q) == SelectSeq(q, LAMBDA e : ~e.sync)

\* the button and axis calls among the callbacks, as the events they carry
Dispatched(fired) ==
    LET calls == SelectSeq(fired, LAMBDA c : c.cb \in {"button", "axis"})
    IN  [i \in DOMAIN calls |->
            [type  |-> IF calls[i].cb = "button" THEN EV_KEY ELSE EV_ABS,
             code  |-> calls[i].code,
             value |-> calls[i].value,
             sync  |-> FALSE]]

IsPrefix(a, b) == Len(a) <= Len(b) /\ \A i \in DOMAIN a : a[i] = b[i]

\* C6: no event read inside a dropped burst reaches the button or the axis
\* callback or becomes the last event: the calls of a cycle are, in order,
\* the key and absolute events it read outside bursts (all of them when the
\* cycle comes back), and the last event is the last event read outside a burst
C6_BurstNotForwarded ==
    LET keyabs == SelectSeq(Plain(consumed),
                            LAMBDA e : e.type \in {EV_KEY, EV_ABS})
    IN  /\ IsPrefix(Dispatched(cbs), keyabs)
        /\ run = "ok" => Dispatched(cbs) = keyabs
        /\ (run = "ok" /\ Len(trail) = 3) =>
              IF Plain(consumed) = <<>>
              THEN poll_data.prev_type = -1
              ELSE LET e == Plain(consumed)[Len(Plain(consumed))]
                   IN  /\ poll_data.prev_type  = e.type
                       /\ poll_data.prev_code  = e.code
                       /\ poll_data.prev_value = e.value

C6_Witness ==
    /\ run = "ok"
    /\ Len(consumed) = 3
    /\ consumed[1].sync /\ consumed[1].type = EV_SYN
    /\ consumed[2].sync /\ consumed[2].type = EV_KEY
    /\ ~consumed[3].sync /\ consumed[3].type = EV_ABS
    /\ Len(cbs) = 1 /\ cbs[1].cb = "axis" /\ cbs[1].set

\* C7: every invocation of the drive callback returns
C7_DriveReturns == run = "ok"

\* C8: a Starting cycle that fails to open the stream, or to set up libevdev
\* on it, leaves the engine idle with no device pending; idle or stopping
\* with no device pending, every drive cycle leaves it idle and never fires
\* on_device_ready; so after the failure the following cycles do nothing
C8_NoRetryAfterFailedStart ==
    /\ [] ( (\E i \in DOMAIN trail : trail[i] = "failed")
            => ( /\ poll_data.state = POLL_STATE_IDLE
                 /\ poll_data.new_device = NULL
                 /\ poll_data.evdev = NULL
                 /\ cbs = <<>>
                 /\ \A i, j \in DOMAIN trail :
                       (trail[i] = "failed" /\ j > i) => trail[j] = "none" ) )
    /\ [][ ( /\ poll_data.state = POLL_STATE_START
             /\ poll_data.new_device = NULL
             /\ \E openOk, initOk \in BOOLEAN :
                   /\ ~openOk \/ ~initOk \/ FreeFds(fdtable) = {}
                   /\ poll_worker(openOk, initOk, <<>>, FALSE) )
           => ( /\ poll_data'.state = POLL_STATE_IDLE
                /\ poll_data'.new_device = NULL
                /\ poll_data'.evdev = NULL
                /\ cbs' = <<>> ) ]_vars
    /\ [][ ( /\ poll_data.state \in {POLL_STATE_IDLE, POLL_STATE_STOP}
             /\ poll_data.new_device = NULL
             /\ Cycle )
           => ( /\ poll_data'.state = POLL_STATE_IDLE
                /\ poll_data'.evdev = NULL
                /\ \A i \in DOMAIN cbs' : cbs'[i].cb # "ready" ) ]_vars

C8_Witness ==
    /\ req.op = "begin"
    /\ trail = <<"bound", "failed", "none">>
    /\ poll_data.state = POLL_STATE_IDLE

\* C9: once the engine is in Teardown no step takes it to another state
C9_TeardownTerminal ==
    [][ poll_data.state = POLL_STATE_TEARDOWN
        => poll_data'.state = POLL_STATE_TEARDOWN ]_vars

\* the stream handles the engine holds: its descriptor, if open on a device,
\* and the descriptor of its libevdev object
HeldFds ==
    ({poll_data.fd} \cap EngineFds)
        \cup (IF poll_data.evdev = NULL THEN {} ELSE {poll_data.evdev[1]})

\* C10: the engine holds at most one stream handle; while Polling it is open
\* on the current device, and every button or axis call of a cycle carries
\* an event read from the stream of the current device
C10_OneDevicePolled ==
    /\ Cardinality(HeldFds) <= 1
    /\ poll_data.state = POLL_STATE_POLL
          => /\ poll_data.cur_device # NULL
             /\ HeldFds = {poll_data.fd}
             /\ fdtable[poll_data.fd] = poll_data.cur_device[1]
    /\ \A i \in DOMAIN cbs :
          cbs[i].cb \in {"button", "axis"}
             => /\ poll_data.state = POLL_STATE_POLL
                /\ cbs[i].dev = poll_data.cur_device[1]

C10_Witness ==
    /\ poll_data.state = POLL_STATE_POLL
    /\ Cardinality(EngineFds) = 2
    /\ Len(cbs) = 1 /\ cbs[1].cb = "button" /\ cbs[1].set
    /\ cbs[1].dev = poll_data.cur_device[1]

\* C11: stop_poll() itself closes no stream, clears no device and fires no
\* callback: it only marks the engine as stopping; the stream is closed, the
\* current device cleared and on_poll_stopped() fired by the drive cycle that
\* follows, and by no step before it
C11_StopIsCooperative ==
    /\ [][ event_widget_stop_poll
           => ( /\ fdtable' = fdtable
                /\ poll_data' = [poll_data EXCEPT !.state = POLL_STATE_STOP]
                /\ cbs' = <<>>
                /\ timer' = timer ) ]_vars
    /\ [] ( (req.op = "stop" /\ req.pre = POLL_STATE_POLL /\ trail = <<>>)
            => ( /\ poll_data.state = POLL_STATE_STOP
                 /\ poll_data.cur_device = <<req.precur>>
                 /\ poll_data.evdev = <<poll_data.fd>>
                 /\ fdtable[poll_data.fd] = req.precur
                 /\ cbs = <<>> ) )
    /\ [][ (poll_data.state = POLL_STATE_STOP /\ Cycle)
           => ( /\ poll_data'.state = POLL_STATE_IDLE
                /\ poll_data'.cur_device = NULL
                /\ poll_data'.evdev = NULL
                /\ poll_data.fd >= 0 => poll_data.fd \notin DOMAIN fdtable'
                /\ cbs' = <<on_poll_stopped>> ) ]_vars

C11_Witness ==
    /\ req.op = "stop" /\ req.pre = POLL_STATE_POLL /\ trail = <<>>
    /\ poll_data.state = POLL_STATE_STOP
    /\ poll_data.cur_device # NULL
    /\ poll_data.fd \in EngineFds

(***************************************************************************)
(* Part 2: joystick.c.                                                     *)
(***************************************************************************)
JOY_GUID_SIZE == 16

\* the terminating character of a C string
NUL == "NUL"

\* conversion to uint16_t and to uint8_t
u16(x) == x % 65536
u8(x)  == x % 256

\* identity values a kernel device can report: zero, a high nibble, two
\* different bytes, all bits
Ids == {0, 16, 4660, 65535}

(***************************************************************************)
(* A descriptor (joy_dev_info_t) after dev_info_clear().  Pointer members  *)
(* are NULL or <<address>>; guid and guid_str are the arrays of the        *)
(* struct, indexed from 0 as in the source.                                *)
(***************************************************************************)
dev_info_clear ==
    [path        |-> NULL,
     name        |-> NULL,
     guid        |-> [i \in 0 .. JOY_GUID_SIZE - 1 |-> 0],
     guid_str    |-> [i \in 0 .. JOY_GUID_SIZE * 2 |-> NUL],
     bustype     |-> 0,
     vendor      |-> 0,
     product     |-> 0,
     version     |-> 0,
     num_axes    |-> 0,
     num_buttons |-> 0,
     num_hats    |-> 0,
     num_balls   |-> 0,
     button_map  |-> NULL,
     axis_map    |-> NULL,
     hat_map     |-> NULL]

\* faulty variant: the fields are packed high byte first
dev_info_generate_guid_big_endian(info) ==
    [info EXCEPT !.guid =
        [i \in 0 .. JOY_GUID_SIZE - 1 |->
            CASE i = 0  -> u8(info.bustype \div 256)
              [] i = 1  -> u8(info.bustype % 256)
              [] i = 4  -> u8(info.vendor \div 256)
              [] i = 5  -> u8(info.vendor % 256)
              [] i = 8  -> u8(info.product \div 256)
              [] i = 9  -> u8(info.product % 256)
              [] i = 12 -> u8(info.version \div 256)
              [] i = 13 -> u8(info.version % 256)
              [] OTHER  -> 0]]

\* (uint8_t)(x & 0xff) and (uint8_t)(x >> 8) of the four identity fields
dev_info_generate_guid(info) ==
    [info EXCEPT !.guid =
        [i \in 0 .. JOY_GUID_SIZE - 1 |->
            CASE i = 0  -> u8(info.bustype % 256)
              [] i = 1  -> u8(info.bustype \div 256)
              [] i = 4  -> u8(info.vendor % 256)
              [] i = 5  -> u8(info.vendor \div 256)
              [] i = 8  -> u8(info.product % 256)
              [] i = 9  -> u8(info.product \div 256)
              [] i = 12 -> u8(info.version % 256)
              [] i = 13 -> u8(info.version \div 256)
              [] OTHER  -> 0]]

digits == <<"0", "1", "2", "3", "4", "5", "6", "7",
            "8", "9", "a", "b", "c", "d", "e", "f">>

\* guid_str[i*2] = digits[guid[i] >> 8], guid_str[i*2+1] = digits[guid[i] & 0x0f],
\* and the terminator after the last pair
dev_info_generate_guid_str(info) ==
    [info EXCEPT !.guid_str =
        [k \in 0 .. JOY_GUID_SIZE * 2 |->
            IF k = JOY_GUID_SIZE * 2 THEN NUL
            ELSE IF k % 2 = 0
            THEN digits[(info.guid[k \div 2] \div 256) + 1]
            ELSE digits[(info.guid[k \div 2] % 16) + 1]]]

(***************************************************************************)
(* The identity part of sd_get_dev_info(): the four identity values the    *)
(* kernel reports are stored as uint16_t and the GUID and its string are   *)
(* generated from them.                                                    *)
(***************************************************************************)
identify(info, bus, ven, pro, ver) ==
    dev_info_generate_guid_str(dev_info_generate_guid(
        [info EXCEPT !.bustype = u16(bus),
                     !.vendor  = u16(ven),
                     !.product = u16(pro),
                     !.version = u16(ver)]))

get_identity(bus, ven, pro, ver) ==
    /\ run = "ok"
    /\ lastcall' = [fn   |-> "identify",
                    args |-> <<bus, ven, pro, ver>>,
                    info |-> identify(dev_info_clear, bus, ven, pro, ver)]
    /\ UNCHANGED <<heap, devices_list, devices_count, rows>>
    /\ UNCHANGED enginevars

NextGuid == \E bus \in Ids, ven \in Ids, pro \in Ids, ver \in Ids :
                get_identity(bus, ven, pro, ver)

SpecGuid == Init /\ [][NextGuid]_vars

\* strlen(): the index of the first terminator of the array
RECURSIVE strlen_from(_, _)
strlen_from(str, k) ==
    IF k \notin DOMAIN str THEN k
    ELSE IF str[k] = NUL THEN k
    ELSE strlen_from(str, k + 1)

\* the value of a hex digit, -1 for any other character
hexval(c) ==
    IF \E n \in 1 .. 16 : digits[n] = c
    THEN (CHOOSE n \in 1 .. 16 : digits[n] = c) - 1
    ELSE -1

\* the byte the two characters at 2i and 2i+1 of a hex string stand for
hexbyte(str, i) == 16 * hexval(str[2 * i]) + hexval(str[2 * i + 1])

\* the little-endian 16-bit field at byte offset o of a hex string
hexfield(str, o) == hexbyte(str, o) + 256 * hexbyte(str, o + 1)

\* C15: the hex rendering of the GUID has length 32, is lowercase hex, renders each
\* byte as its two hex digits, high nibble first, and decodes back into
\* (bus, vendor, product, version) at byte offsets 0, 4, 8 and 12
C15_GuidHexRoundTrip ==
    lastcall.fn = "identify" =>
        LET str == lastcall.info.guid_str
            g   == lastcall.info.guid
        IN  /\ strlen_from(str, 0) = 32
            /\ \A k \in 0 .. 31 : hexval(str[k]) >= 0
            /\ \A i \in 0 .. JOY_GUID_SIZE - 1 :
                  /\ str[2 * i]     = digits[(g[i] \div 16) + 1]
                  /\ str[2 * i + 1] = digits[(g[i] % 16) + 1]
            /\ <<hexfield(str, 0), hexfield(str, 4),
                 hexfield(str, 8), hexfield(str, 12)>> = lastcall.args

\* C16: bytes 0-1, 4-5, 8-9 and 12-13 of the GUID are the low byte then the
\* high byte of bus, vendor, product and version, and every other byte is zero
C16_GuidLayout ==
    lastcall.fn = "identify" =>
        LET g == lastcall.info.guid
            a == lastcall.args
        IN  /\ DOMAIN g = 0 .. 15
            /\ \A i \in 0 .. 15 : g[i] \in 0 .. 255
            /\ \A f \in 0 .. 3 :
                  /\ g[4 * f] + 256 * g[4 * f + 1] = a[f + 1]
                  /\ g[4 * f + 2] = 0
                  /\ g[4 * f + 3] = 0

C16_Witness ==
    /\ lastcall.fn = "identify"
    /\ lastcall.args = <<16, 4660, 0, 65535>>
    /\ lastcall.info.guid[0] = 16
    /\ lastcall.info.guid[4] = 52
    /\ lastcall.info.guid[5] = 18
    /\ lastcall.info.guid[13] = 255

(***************************************************************************)
(* The code name tables, entry by entry in the order of the source, with   *)
(* the values <linux/input-event-codes.h> gives the code names: buttons    *)
(* BTN_0 (256) .. BTN_DPAD_RIGHT (547), axes ABS_X (0) .. ABS_MISC (40),   *)
(* hat axes ABS_HAT0X (16) .. ABS_HAT3Y (23).  The button table names      *)
(* BTN_0 and BTN_1 five times each.                                        *)
(***************************************************************************)
button_names ==
    << [code |-> 256, name |-> "Btn0"],
       [code |-> 257, name |-> "Btn1"],
       [code |-> 256, name |-> "Btn2"],
       [code |-> 257, name |-> "Btn3"],
       [code |-> 256, name |-> "Btn4"],
       [code |-> 257, name |-> "Btn5"],
       [code |-> 256, name |-> "Btn6"],
       [code |-> 257, name |-> "Btn7"],
       [code |-> 256, name |-> "Btn8"],
       [code |-> 257, name |-> "Btn9"],
       [code |-> 272, name |-> "LeftBtn"],
       [code |-> 273, name |-> "RightBtn"],
       [code |-> 274, name |-> "MiddleBtn"],
       [code |-> 275, name |-> "SideBtn"],
       [code |-> 276, name |-> "ExtraBtn"],
       [code |-> 277, name |-> "FowardBtn"],
       [code |-> 278, name |-> "BackBtn"],
       [code |-> 279, name |-> "TaskBtn"],
       [code |-> 288, name |-> "Trigger"],
       [code |-> 289, name |-> "ThumbBtn"],
       [code |-> 290, name |-> "ThumbBtn2"],
       [code |-> 291, name |-> "TopBtn"],
       [code |-> 292, name |-> "TopBtn2"],
       [code |-> 293, name |-> "PinkieButton"],
       [code |-> 294, name |-> "BaseBtn"],
       [code |-> 295, name |-> "BaseBtn2"],
       [code |-> 296, name |-> "BaseBtn3"],
       [code |-> 297, name |-> "BaseBtn4"],
       [code |-> 298, name |-> "BaseBtn5"],
       [code |-> 299, name |-> "BaseBtn6"],
       [code |-> 303, name |-> "BtnDead"],
       [code |-> 304, name |-> "BtnA"],
       [code |-> 305, name |-> "BtnB"],
       [code |-> 306, name |-> "BtnC"],
       [code |-> 307, name |-> "BtnX"],
       [code |-> 308, name |-> "BtnY"],
       [code |-> 309, name |-> "BtnZ"],
       [code |-> 310, name |-> "BtnTL"],
       [code |-> 311, name |-> "BtnTR"],
       [code |-> 312, name |-> "BtnTL2"],
       [code |-> 313, name |-> "BtnTR2"],
       [code |-> 314, name |-> "BtnSelect"],
       [code |-> 315, name |-> "BtnStart"],
       [code |-> 316, name |-> "BtnMode"],
       [code |-> 317, name |-> "BtnThumbL"],
       [code |-> 318, name |-> "BtnThumbR"],
       [code |-> 336, name |-> "GearDown"],
       [code |-> 337, name |-> "GearUp"],
       [code |-> 544, name |-> "BtnDPadUp"],
       [code |-> 545, name |-> "BtnDPadDown"],
       [code |-> 546, name |-> "BtnDPadLeft"],
       [code |-> 547, name |-> "BtnDPadRight"] >>

axis_names ==
    << [code |-> 0, name |-> "X"],
       [code |-> 1, name |-> "Y"],
       [code |-> 2, name |-> "Z"],
       [code |-> 3, name |-> "Rx"],
       [code |-> 4, name |-> "Ry"],
       [code |-> 5, name |-> "Rz"],
       [code |-> 6, name |-> "Throttle"],
       [code |-> 7, name |-> "Rudder"],
       [code |-> 8, name |-> "Wheel"],
       [code |-> 9, name |-> "Gas"],
       [code |-> 10, name |-> "Brake"],
       [code |-> 16, name |-> "Hat0X"],
       [code |-> 17, name |-> "Hat0Y"],
       [code |-> 18, name |-> "Hat1X"],
       [code |-> 19, name |-> "Hat1Y"],
       [code |-> 20, name |-> "Hat2X"],
       [code |-> 21, name |-> "Hat2Y"],
       [code |-> 22, name |-> "Hat3X"],
       [code |-> 23, name |-> "Hat3Y"],
       [code |-> 24, name |-> "Pressure"],
       [code |-> 25, name |-> "Distance"],
       [code |-> 26, name |-> "XTilt"],
       [code |-> 27, name |-> "YTilt"],
       [code |-> 28, name |-> "ToolWidth"],
       [code |-> 32, name |-> "Volume"],
       [code |-> 33, name |-> "Profile"],
       [code |-> 40, name |-> "Misc"] >>

hat_names ==
    << [code |-> 16, name |-> "Hat0"],
       [code |-> 17, name |-> "Hat0"],
       [code |-> 18, name |-> "Hat1"],
       [code |-> 19, name |-> "Hat1"],
       [code |-> 20, name |-> "Hat2"],
       [code |-> 21, name |-> "Hat2"],
       [code |-> 22, name |-> "Hat3"],
       [code |-> 23, name |-> "Hat3"] >>

\* faulty variant: the scan stops one entry short of the table's end
RECURSIVE name_for_skips_last(_, _, _)
name_for_skips_last(table, code, i) ==
    IF i >= Len(table) - 1 THEN "<?>"
    ELSE IF table[i + 1].code = code THEN table[i + 1].name
    ELSE IF table[i + 1].code > code THEN "<?>"
    ELSE name_for_skips_last(table, code, i + 1)

\* the loop the three lookups share: the first entry with the code, given up
\* at the first entry with a larger code
RECURSIVE name_for(_, _, _)
name_for(table, code, i) ==
    IF i >= Len(table) THEN "<?>"
    ELSE IF table[i + 1].code = code THEN table[i + 1].name
    ELSE IF table[i + 1].code > code THEN "<?>"
    ELSE name_for(table, code, i + 1)

joy_get_axis_name(code)   == name_for(axis_names, code, 0)
joy_get_button_name(code) == name_for(button_names, code, 0)
joy_get_hat_name(code)    == name_for(hat_names, code, 0)

\* the table of a category and its lookup
NameTable(cat) ==
    CASE cat = "button" -> button_names
      [] cat = "axis"   -> axis_names
      [] cat = "hat"    -> hat_names

\* the codes a lookup is tried on: from 0 to one past the table's largest code
LargestCode(table) ==
    CHOOSE c \in {table[i].code : i \in DOMAIN table} :
        \A i \in DOMAIN table : table[i].code <= c

CodesOf(cat) == 0 .. LargestCode(NameTable(cat)) + 1

get_name(cat, code) ==
    /\ run = "ok"
    /\ lastcall' = [fn   |-> "name",
                    cat  |-> cat,
                    code |-> code,
                    ret  |-> CASE cat = "button" -> joy_get_button_name(code)
                               [] cat = "axis"   -> joy_get_axis_name(code)
                               [] cat = "hat"    -> joy_get_hat_name(code)]
    /\ UNCHANGED <<heap, devices_list, devices_count, rows>>
    /\ UNCHANGED enginevars

NextNames == \E cat \in {"button", "axis", "hat"} :
                 \E code \in CodesOf(cat) : get_name(cat, code)

SpecNames == Init /\ [][NextNames]_vars

\* the entries of a table that name a code, in table order
EntriesFor(table, code) == SelectSeq(table, LAMBDA e : e.code = code)

UNINIT == <<>>

StrBlock(str)  == [kind |-> "str", val |-> str]
InfoBlock(rec) == [kind |-> "info", f |-> rec]
ArrBlock(n)    == [kind  |-> "arr", cap |-> n,
                   cells |-> [i \in 1 .. n |-> UNINIT], over |-> <<>>]

LowestFreeAddr(h) ==
    CHOOSE a \in 1 .. Cardinality(DOMAIN h) + 1 :
        /\ a \notin DOMAIN h
        /\ \A b \in 1 .. a - 1 : b \in DOMAIN h

lib_malloc(h, blk) ==
    [heap |-> [a \in DOMAIN h \cup {LowestFreeAddr(h)} |->
                  IF a \in DOMAIN h THEN h[a] ELSE blk],
     ptr  |-> <<LowestFreeAddr(h)>>]

lib_free(h, p) ==
    IF p = NULL THEN h ELSE [a \in DOMAIN h \ {p[1]} |-> h[a]]

lib_strdup(h, str) == lib_malloc(h, StrBlock(str))

\* arr[i] = v and the value of arr[i], for the array block blk
store(blk, i, v) ==
    IF i < blk.cap
    THEN [blk EXCEPT !.cells[i + 1] = <<v>>]
    ELSE [blk EXCEPT !.over = [j \in DOMAIN blk.over \cup {i} |->
                                  IF j = i THEN <<v>> ELSE blk.over[j]]]

load(blk, i) ==
    IF i < blk.cap THEN blk.cells[i + 1]
    ELSE IF i \in DOMAIN blk.over THEN blk.over[i]
    ELSE UNINIT

(***************************************************************************)
(* The capability scan of a device.  A device hw is what libevdev reports  *)
(* of it: its name, its identity and the sets of key and absolute codes    *)
(* it supports.                                                            *)
(***************************************************************************)
BTN_MISC     == 256
BTN_JOYSTICK == 288
KEY_MAX      == 767
ABS_X        == 0
ABS_HAT0X    == 16
ABS_HAT3Y    == 23
ABS_RESERVED == 46
INT16_MIN    == -32768
INT16_MAX    == 32767

\* the codes of a set in the order a loop `for (code = lo; code < hi; code++)`
\* meets them
RECURSIVE Ascending(_)
Ascending(S) ==
    IF S = {} THEN <<>>
    ELSE LET m == CHOOSE x \in S : \A y \in S : x <= y
         IN  <<m>> \o Ascending(S \ {m})

CodesBetween(S, lo, hi) == Ascending({c \in S : lo <= c /\ c < hi})

libevdev_has_event_type(hw, type) ==
    IF type = EV_KEY THEN hw.keys # {} ELSE hw.abs # {}

\* the range the kernel reports of a supported absolute code; NULL otherwise
libevdev_get_abs_info(hw, code) ==
    IF code \notin hw.abs THEN NULL
    ELSE IF code >= ABS_HAT0X /\ code <= ABS_HAT3Y
    THEN <<[minimum |-> -1, maximum |-> 1, fuzz |-> 0, flat |-> 0,
            resolution |-> 0]>>
    ELSE <<[minimum |-> 0, maximum |-> 255, fuzz |-> 0, flat |-> 15,
            resolution |-> 0]>>

\* the loop that stores the codes one after the other from index k
RECURSIVE fill_buttons(_, _, _)
fill_buttons(blk, codes, k) ==
    IF codes = <<>> THEN blk
    ELSE fill_buttons(store(blk, k, u16(Head(codes))), Tail(codes), k + 1)

(***************************************************************************)
(* dev_info_scan_buttons(): the buttons are counted from BTN_MISC, the map *)
(* is allocated after the counter was set back to 0, and it is filled      *)
(* from BTN_JOYSTICK.  The operators of the scan take the heap h and the   *)
(* descriptor record info and return both, with oob telling whether a      *)
(* write fell outside its array.                                           *)
(***************************************************************************)
dev_info_scan_buttons(h, info, hw) ==
    IF ~libevdev_has_event_type(hw, EV_KEY)
    THEN [heap |-> h, info |-> info, oob |-> FALSE]
    ELSE LET counted == Len(CodesBetween(hw.keys, BTN_MISC, KEY_MAX))
             stored  == CodesBetween(hw.keys, BTN_JOYSTICK, KEY_MAX)
             n_buttons == 0
             m   == lib_malloc(h, ArrBlock(n_buttons))
             blk == fill_buttons(m.heap[m.ptr[1]], stored, n_buttons)
         IN  [heap |-> [m.heap EXCEPT ![m.ptr[1]] = blk],
              info |-> [info EXCEPT !.num_buttons = u16(counted),
                                    !.button_map  = m.ptr],
              oob  |-> blk.over # <<>>]

is_hat_code(code) == code >= ABS_HAT0X /\ code <= ABS_HAT3Y

\* abs_info_clear() and the assignments that follow it
abs_vice(hw, code) ==
    LET abs_evdev == libevdev_get_abs_info(hw, code)
    IN  IF abs_evdev # NULL
        THEN [code       |-> u16(code),
              minimum    |-> abs_evdev[1].minimum,
              maximum    |-> abs_evdev[1].maximum,
              fuzz       |-> abs_evdev[1].fuzz,
              flat       |-> abs_evdev[1].flat,
              resolution |-> abs_evdev[1].resolution]
        ELSE [code       |-> u16(code),
              minimum    |-> INT16_MIN,
              maximum    |-> INT16_MAX,
              fuzz       |-> 0,
              flat       |-> 0,
              resolution |-> 0]

\* the second loop: each supported code goes to the next cell of its map
RECURSIVE fill_abs(_, _, _, _, _, _)
fill_abs(axes, hats, hw, codes, n_axes, n_hats) ==
    IF codes = <<>> THEN [axes |-> axes, hats |-> hats]
    ELSE IF is_hat_code(Head(codes))
    THEN fill_abs(axes, store(hats, n_hats, abs_vice(hw, Head(codes))),
                  hw, Tail(codes), n_axes, n_hats + 1)
    ELSE fill_abs(store(axes, n_axes, abs_vice(hw, Head(codes))), hats,
                  hw, Tail(codes), n_axes + 1, n_hats)

dev_info_scan_axes_and_hats(h, info, hw) ==
    IF ~libevdev_has_event_type(hw, EV_ABS)
    THEN [heap |-> h, info |-> info, oob |-> FALSE]
    ELSE LET codes    == CodesBetween(hw.abs, ABS_X, ABS_RESERVED)
             n_hats == Len(SelectSeq(codes, is_hat_code))
             n_axes == Len(codes) - n_hats
             ma  == lib_malloc(h, ArrBlock(n_axes))
             mh  == lib_malloc(ma.heap, ArrBlock(n_hats))
             f   == fill_abs(mh.heap[ma.ptr[1]], mh.heap[mh.ptr[1]], hw,
                             codes, 0, 0)
         IN  [heap |-> [mh.heap EXCEPT ![ma.ptr[1]] = f.axes,
                                       ![mh.ptr[1]] = f.hats],
              info |-> [info EXCEPT !.num_axes = u16(n_axes),
                                    !.num_hats = u16(n_hats) \div 2,
                                    !.axis_map = ma.ptr,
                                    !.hat_map  = mh.ptr],
              oob  |-> f.axes.over # <<>> \/ f.hats.over # <<>>]

(***************************************************************************)
(* sd_get_dev_info() on the descriptor at p, whose path is set, for the    *)
(* device node the path names: node.open and node.init tell whether        *)
(* open() and libevdev_new_from_fd() succeed on it, node.hw is the device. *)
(* The descriptor opened is closed again on every path, so the descriptor  *)
(* table is as before.                                                     *)
(***************************************************************************)
sd_get_dev_info(h, p, node) ==
    IF ~node.open \/ ~node.init
    THEN [ok |-> FALSE, heap |-> h, oob |-> FALSE]
    ELSE LET hw == node.hw
             nm == lib_strdup(h, hw.name)
             i1 == identify([h[p[1]].f EXCEPT !.name = nm.ptr],
                            hw.ids[1], hw.ids[2], hw.ids[3], hw.ids[4])
             sb == dev_info_scan_buttons(nm.heap, i1, hw)
             sa == dev_info_scan_axes_and_hats(sb.heap, sb.info, hw)
         IN  [ok   |-> TRUE,
              heap |-> [sa.heap EXCEPT ![p[1]] = InfoBlock(sa.info)],
              oob  |-> sb.oob \/ sa.oob]

dev_info_free_data(h, info) ==
    lib_free(lib_free(lib_free(lib_free(lib_free(h,
        info.path), info.name), info.button_map), info.axis_map), info.hat_map)

joy_dev_info_free(h, device) ==
    IF device = NULL THEN h
    ELSE lib_free(dev_info_free_data(h, h[device[1]].f), device)

(***************************************************************************)
(* The capability scan by itself: one device at a time is probed the way   *)
(* the scan loop does it (a cleared descriptor with its path, then         *)
(* sd_get_dev_info()) and its descriptor freed again.  The devices         *)
(* support any keys of KeyCodes (a button below BTN_JOYSTICK, two from it  *)
(* on) and any absolute codes of AbsCodes (an axis, the first hat, the     *)
(* last hat axis and the code after it).                                   *)
(***************************************************************************)
KeyCodes == {272, 288, 304}
AbsCodes == {0, 16, 17, 23, 24}

Pad(keys, abs) ==
    [name |-> "Pad", ids |-> <<3, 1118, 654, 272>>, keys |-> keys, abs |-> abs]

\* after a write outside an array the process goes on or is killed
Survives(oob) == IF oob THEN {"ok", "crashed"} ELSE {"ok"}

probe(keys, abs) ==
    /\ run = "ok"
    /\ heap = <<>>
    /\ LET mi == lib_malloc(heap, InfoBlock(dev_info_clear))
           mp == lib_strdup(mi.heap, "/dev/input/by-id/pad-event-joystick")
           h1 == [mp.heap EXCEPT ![mi.ptr[1]].f.path = mp.ptr]
           r  == sd_get_dev_info(h1, mi.ptr,
                                 [open |-> TRUE, init |-> TRUE,
                                  hw |-> Pad(keys, abs)])
       IN  /\ heap' = r.heap
           /\ lastcall' = [fn |-> "probe", hw |-> Pad(keys, abs),
                           info |-> mi.ptr, ok |-> r.ok]
           /\ run' \in Survives(r.oob)
    /\ UNCHANGED <<devices_list, devices_count, rows>>
    /\ UNCHANGED <<poll_data, fdtable, timer, req, trail, cbs, consumed>>

release ==
    /\ run = "ok"
    /\ lastcall.fn = "probe"
    /\ heap' = joy_dev_info_free(heap, lastcall.info)
    /\ lastcall' = [fn |-> "release"]
    /\ UNCHANGED <<devices_list, devices_count, rows>>
    /\ UNCHANGED enginevars

NextCaps ==
    \/ \E keys \in SUBSET KeyCodes, abs \in SUBSET AbsCodes : probe(keys, abs)
    \/ release

SpecCaps == Init /\ [][NextCaps]_vars

\* the cells of the array p points to, as a sequence; none for a null pointer
Cells(h, p) == IF p = NULL THEN <<>> ELSE h[p[1]].cells

\* the codes of a sequence of written axis descriptors
AbsCodesOf(cells) == {cells[i][1].code : i \in DOMAIN cells}

\* C19: after the capability scan the axes hold exactly the supported
\* absolute codes outside ABS_HAT0X..ABS_HAT3Y and the hats exactly those
\* inside it, each once, no code is in both, and the number of hat entries
\* is even and equal to 2 * num_hats
C19_AxesHatsPartition ==
    (lastcall.fn = "probe" /\ lastcall.ok) =>
        LET info == heap[lastcall.info[1]].f
            axes == Cells(heap, info.axis_map)
            hats == Cells(heap, info.hat_map)
            abs  == lastcall.hw.abs
        IN  /\ \A i \in DOMAIN axes : axes[i] # UNINIT
            /\ \A i \in DOMAIN hats : hats[i] # UNINIT
            /\ AbsCodesOf(axes) = {c \in abs : c < ABS_HAT0X \/ c > ABS_HAT3Y}
            /\ AbsCodesOf(hats) = {c \in abs : c >= ABS_HAT0X /\ c <= ABS_HAT3Y}
            /\ Cardinality(AbsCodesOf(axes)) = Len(axes)
            /\ Cardinality(AbsCodesOf(hats)) = Len(hats)
            /\ AbsCodesOf(axes) \cap AbsCodesOf(hats) = {}
            /\ Len(hats) % 2 = 0
            /\ Len(hats) = 2 * info.num_hats

(***************************************************************************)
(* The devices list.  A directory is unreadable or a sequence of entries   *)
(* in directory order; an entry has a name, <<stem, suffix>>, and the      *)
(* device node behind it: whether open() and libevdev_new_from_fd()        *)
(* succeed on it and the device hw they give access to.                    *)
(***************************************************************************)
\* largest number of list blocks left allocated behind the current list
MaxLeaked == 1

JOY_UDEV_SUFFIX       == "-event-joystick"
JOY_INPUT_NODES_PATH  == "/dev/input/by-id"

Node(open_ok, init_ok, hw) == [open |-> open_ok, init |-> init_ok, hw |-> hw]

PadA == [name |-> "Pad A", ids |-> <<3, 1118, 654, 272>>,
         keys |-> {304, 305}, abs |-> {0, 1, 16, 17}]
PadB == [name |-> "Pad B", ids |-> <<3, 121, 6, 16>>,
         keys |-> {272, 288}, abs |-> {0, 16}]

EntryA == [name |-> <<"usb-A", JOY_UDEV_SUFFIX>>, node |-> Node(TRUE, TRUE, PadA)]
EntryB == [name |-> <<"usb-B", JOY_UDEV_SUFFIX>>, node |-> Node(TRUE, TRUE, PadB)]
\* a node that cannot be opened
EntryX == [name |-> <<"usb-X", JOY_UDEV_SUFFIX>>, node |-> Node(FALSE, TRUE, PadA)]
\* a node libevdev cannot initialise on
EntryI == [name |-> <<"usb-I", JOY_UDEV_SUFFIX>>, node |-> Node(TRUE, FALSE, PadA)]
\* names that are not "-event-joystick" names
EntryM == [name |-> <<"usb-A", "-event-mouse">>, node |-> Node(TRUE, TRUE, PadA)]
EntryS == [name |-> <<JOY_UDEV_SUFFIX>>, node |-> Node(TRUE, TRUE, PadA)]

Unreadable == [readable |-> FALSE, entries |-> <<>>]

Dir(entries) == [readable |-> TRUE, entries |-> entries]

Dirs ==
    { Unreadable,
      Dir(<<>>),
      Dir(<<EntryM, EntryS>>),
      Dir(<<EntryA>>),
      Dir(<<EntryX>>),
      Dir(<<EntryA, EntryM, EntryB>>),
      Dir(<<EntryB, EntryA>>),
      Dir(<<EntryX, EntryA>>),
      Dir(<<EntryA, EntryI>>),
      Dir(<<EntryA, EntryI, EntryB>>) }

\* strlen(name) > strlen(suffix) and the name ends in the suffix
sd_filter(entry) ==
    Len(entry.name) > 1 /\ entry.name[Len(entry.name)] = JOY_UDEV_SUFFIX

\* the root without a trailing slash, a slash and the name
sd_get_full_path(root, name) == <<root, "/">> \o name

\* scandir(path, &namelist, sd_filter, NULL): -1, or the entries that pass
\* the filter, in directory order
scandir(dir) ==
    IF ~dir.readable THEN [n |-> -1, namelist |-> <<>>]
    ELSE LET kept == SelectSeq(dir.entries, sd_filter)
         IN  [n |-> Len(kept), namelist |-> kept]

\* the block of the list: count + 1 pointers, all set to NULL
ListBlock(n) == [kind |-> "list", cells |-> [i \in 1 .. n |-> NULL]]

\* the value of an expression evaluated once
Only(S) == CHOOSE x \in S : TRUE

\* the loop of joy_free_devices_list()
RECURSIVE free_devices(_, _, _, _)
free_devices(h0, cells, i, count) ==
    IF i >= count THEN h0
    ELSE Only({ free_devices(h, cells, i + 1, count) :
                    h \in {joy_dev_info_free(h0, cells[i + 1])} })

joy_free_devices_list(h, list, count) ==
    [heap  |-> IF list # NULL
               THEN free_devices(h, h[list[1]].cells, 0, count) ELSE h,
     list  |-> NULL,
     count |-> 0]

(***************************************************************************)
(* The loop of joy_scan_devices() from device index d and info index i.    *)
(* The name of the entry is read from namelist[i], and namelist[d] is      *)
(* freed at the end of each round: once a node has failed i is behind d    *)
(* and the name is read from an entry already freed (uaf), whose memory    *)
(* still holds the name of that entry.                                     *)
(***************************************************************************)
RECURSIVE scan_loop(_, _, _, _, _, _, _)
scan_loop(h0, list, namelist, d, i, oob, uaf) ==
    IF d >= Len(namelist)
    THEN [heap |-> h0, i |-> i, oob |-> oob, uaf |-> uaf]
    ELSE LET entry == namelist[i + 1]
             path  == sd_get_full_path(JOY_INPUT_NODES_PATH, entry.name)
             round(h) ==
                 LET mi == lib_malloc(h, InfoBlock(dev_info_clear))
                     mp == lib_malloc(mi.heap, StrBlock(path))
                     h1 == [mp.heap EXCEPT ![mi.ptr[1]].f.path = mp.ptr]
                     r  == sd_get_dev_info(h1, mi.ptr, entry.node)
                 IN  IF r.ok
                     THEN [ok |-> TRUE, oob |-> r.oob,
                           heap |-> [r.heap EXCEPT
                                        ![list[1]].cells[i + 1] = mi.ptr]]
                     ELSE [ok |-> FALSE, oob |-> r.oob,
                           heap |-> lib_free(lib_free(r.heap, mp.ptr), mi.ptr)]
         IN  Only({ scan_loop(r.heap, list, namelist, d + 1,
                              IF r.ok THEN i + 1 ELSE i,
                              oob \/ r.oob, uaf \/ i < d) :
                        r \in {round(h0)} })

\* what follows scandir() in joy_scan_devices(), n being its result
scan_fill(h, n, namelist) ==
    IF n < 0
    THEN [heap |-> h, list |-> NULL, count |-> n, ret |-> -1,
          devices |-> "unset", oob |-> FALSE, uaf |-> FALSE]
    ELSE IF n = 0
    THEN [heap |-> h, list |-> NULL, count |-> n, ret |-> 0,
          devices |-> NULL, oob |-> FALSE, uaf |-> FALSE]
    ELSE Only({ Only({ [heap    |-> [l.heap EXCEPT
                                        ![ml.ptr[1]].cells[l.i + 1] = NULL],
                        list    |-> ml.ptr,
                        count   |-> n,
                        ret     |-> n,
                        devices |-> ml.ptr,
                        oob     |-> l.oob,
                        uaf     |-> l.uaf] :
                         l \in {scan_loop(ml.heap, ml.ptr, namelist, 0, 0,
                                          FALSE, FALSE)} }) :
                  ml \in {lib_malloc(h, ListBlock(n + 1))} })

\* faulty variant: when the directory cannot be read the previous list is
\* left as it was
scan_devices_keeps_list(h, list, count, dir) ==
    LET sd == scandir(dir)
    IN  IF sd.n < 0
        THEN [heap |-> h, list |-> list, count |-> sd.n, ret |-> -1,
              devices |-> "unset", oob |-> FALSE, uaf |-> FALSE]
        ELSE Only({ scan_fill(f.heap, sd.n, sd.namelist) :
                      f \in {joy_free_devices_list(h, list, count)} })

\* joy_scan_devices(path, &devices) for the directory dir found at path:
\* the heap, devices_list and devices_count it leaves, the value returned
\* and the value stored through devices ("unset": nothing was stored)
scan_devices(h, list, count, dir) ==
    LET sd == scandir(dir)
    IN  Only({ scan_fill(f.heap, sd.n, sd.namelist) :
                 f \in {IF list # NULL
                        THEN joy_free_devices_list(h, list, count)
                        ELSE [heap |-> h, list |-> list, count |-> count]} })

\* the list blocks of the heap that are not the current list
Leaked(h, list) == { a \in DOMAIN h : h[a].kind = "list" /\ list # <<a>> }

joy_scan_devices(dir) ==
    /\ run = "ok"
    /\ \E r \in {scan_devices(heap, devices_list, devices_count, dir)} :
           /\ heap'          = r.heap
           /\ devices_list'  = r.list
           /\ devices_count' = r.count
           /\ lastcall'      = [fn |-> "scan", dir |-> dir, ret |-> r.ret,
                                devices |-> r.devices]
           /\ run' \in Survives(r.oob \/ r.uaf)
    /\ Cardinality(Leaked(heap', devices_list')) <= MaxLeaked
    /\ UNCHANGED <<poll_data, fdtable, timer, req, trail, cbs, consumed, rows>>

free_list ==
    /\ run = "ok"
    /\ \E f \in {joy_free_devices_list(heap, devices_list, devices_count)} :
           /\ heap'          = f.heap
           /\ devices_list'  = f.list
           /\ devices_count' = f.count
    /\ lastcall' = [fn |-> "free"]
    /\ UNCHANGED <<enginevars, rows>>

NextScan ==
    \/ \E dir \in Dirs : joy_scan_devices(dir)
    \/ free_list

SpecScan == Init /\ [][NextScan]_vars

joy_get_devices_list  == devices_list
joy_get_devices_count == devices_count

\* the cells of the current list, and what the descriptors in it hold
ListCells == IF devices_list = NULL THEN <<>> ELSE heap[devices_list[1]].cells
Listed    == { i \in DOMAIN ListCells : ListCells[i] # NULL }
PathOf(p) == heap[heap[p[1]].f.path[1]].val

\* a node on which open() and libevdev_new_from_fd() succeed
Usable(entry) == entry.node.open /\ entry.node.init

ScanReturned == lastcall.fn = "scan" /\ run = "ok"

\* C12: a scan of a readable directory returns the number of qualifying
\* entries whose descriptor was built (all N of them whatever else is in
\* the directory, N - 1 when one of them fails), and the value returned is
\* the number of non-NULL descriptors in the list.
C12_ScanReturnsBuilt ==
    (ScanReturned /\ lastcall.dir.readable) =>
        LET qualifying == SelectSeq(lastcall.dir.entries, sd_filter)
        IN  /\ lastcall.ret = Len(SelectSeq(qualifying, Usable))
            /\ lastcall.ret = Cardinality(Listed)

\* C13: after a scan of a readable directory the descriptors of the list
\* are those of the qualifying entries whose node opens and initialises,
\* each once and under its own path; the failing ones are absent.
C13_FailedNodeSkipped ==
    (ScanReturned /\ lastcall.dir.readable) =>
        LET own == { sd_get_full_path(JOY_INPUT_NODES_PATH,
                                      lastcall.dir.entries[k].name) :
                       k \in { j \in DOMAIN lastcall.dir.entries :
                                 /\ sd_filter(lastcall.dir.entries[j])
                                 /\ Usable(lastcall.dir.entries[j]) } }
        IN  /\ { PathOf(ListCells[i]) : i \in Listed } = own
            /\ Cardinality(Listed) = Cardinality(own)

\* C14: a scan of a directory that cannot be read returns -1 and allocates
\* nothing; after it joy_get_devices_list() is NULL, joy_get_devices_count()
\* is not positive and no descriptor is left.
C14_UnreadableDirectory ==
    /\ []((lastcall.fn = "scan" /\ ~lastcall.dir.readable) =>
             /\ lastcall.ret = -1
             /\ lastcall.devices = "unset"
             /\ joy_get_devices_list = NULL
             /\ joy_get_devices_count <= 0
             /\ \A a \in DOMAIN heap : heap[a].kind # "info")
    /\ [][joy_scan_devices(Unreadable) => DOMAIN heap' \subseteq DOMAIN heap]_vars

\* an unreadable directory scanned after a list with a descriptor in it
C14_Witness ==
    /\ lastcall.fn = "scan" /\ ~lastcall.dir.readable /\ lastcall.ret = -1
    /\ \E a \in Leaked(heap, devices_list) : heap[a].cells[1] # NULL

(***************************************************************************)
(* Descriptor copies.  joy_dev_info_dup() sizes the arrays of the copy by  *)
(* the counts of the original and reads that many elements of the          *)
(* original's arrays; oob tells whether it read outside one of them.       *)
(***************************************************************************)
\* largest number of rows of the device list
MaxRows == 1

\* malloc(n * size) filled with the first n elements of the array at p
dup_map(h, p, n) ==
    LET m == lib_malloc(h, ArrBlock(n))
    IN  [heap |-> [m.heap EXCEPT ![m.ptr[1]].cells =
                      [k \in 1 .. n |-> load(h[p[1]], k - 1)]],
         ptr  |-> m.ptr,
         oob  |-> n > h[p[1]].cap]

dup_maps(h, device, newdev, f) ==
    LET none(hx) == [heap |-> hx, ptr |-> NULL, oob |-> FALSE]
        b  == IF device.num_buttons > 0
              THEN dup_map(h, device.button_map, device.num_buttons)
              ELSE none(h)
        a  == IF device.num_axes > 0
              THEN dup_map(b.heap, device.axis_map, device.num_axes)
              ELSE none(b.heap)
        ht == IF device.num_hats > 0
              THEN dup_map(a.heap, device.hat_map, device.num_hats * 2)
              ELSE none(a.heap)
    IN  [heap |-> [ht.heap EXCEPT ![newdev[1]] =
                      InfoBlock([f EXCEPT !.button_map = b.ptr,
                                          !.axis_map   = a.ptr,
                                          !.hat_map    = ht.ptr])],
         ptr  |-> newdev,
         oob  |-> b.oob \/ a.oob \/ ht.oob]

joy_dev_info_dup(h, p) ==
    LET device == h[p[1]].f
        mn == lib_malloc(h, InfoBlock(dev_info_clear))
        pa == lib_strdup(mn.heap, h[device.path[1]].val)
        na == lib_strdup(pa.heap, h[device.name[1]].val)
    IN  dup_maps(na.heap, device, mn.ptr,
                 [dev_info_clear EXCEPT
                    !.path        = pa.ptr,
                    !.name        = na.ptr,
                    !.guid        = device.guid,
                    !.guid_str    = device.guid_str,
                    !.bustype     = device.bustype,
                    !.vendor      = device.vendor,
                    !.product     = device.product,
                    !.version     = device.version,
                    !.num_axes    = device.num_axes,
                    !.num_buttons = device.num_buttons,
                    !.num_hats    = device.num_hats,
                    !.num_balls   = device.num_balls])

\* box_row_new(device) for the device in cell i of the list
box_row_new(i) ==
    /\ run = "ok"
    /\ i \in Listed
    /\ Cardinality(rows) < MaxRows
    /\ \E r \in {joy_dev_info_dup(heap, ListCells[i])} :
           /\ heap'     = r.heap
           /\ rows'     = rows \cup {r.ptr}
           /\ lastcall' = [fn |-> "dup", device |-> ListCells[i],
                           newdev |-> r.ptr]
           /\ run' \in Survives(r.oob)
    /\ UNCHANGED <<poll_data, fdtable, timer, req, trail, cbs, consumed,
                   devices_list, devices_count>>

\* the destroy handler of a row
on_expander_destroy(data) ==
    /\ run = "ok"
    /\ data \in rows
    /\ heap'     = joy_dev_info_free(heap, data)
    /\ rows'     = rows \ {data}
    /\ lastcall' = [fn |-> "destroy", data |-> data]
    /\ UNCHANGED <<enginevars, devices_list, devices_count>>

NextDup ==
    \/ \E dir \in Dirs : joy_scan_devices(dir)
    \/ free_list
    \/ \E i \in DOMAIN ListCells : box_row_new(i)
    \/ \E data \in rows : on_expander_destroy(data)

SpecDup == Init /\ [][NextDup]_vars

\* what a descriptor holds: its strings, its scalar members and the
\* elements of its three arrays
MapOf(h, p) == IF p = NULL THEN <<>> ELSE h[p[1]].cells
Deep(h, p) ==
    LET f == h[p[1]].f
    IN  [path     |-> h[f.path[1]].val,
         name     |-> h[f.name[1]].val,
         guid     |-> f.guid,
         guid_str |-> f.guid_str,
         ids      |-> <<f.bustype, f.vendor, f.product, f.version>>,
         counts   |-> <<f.num_axes, f.num_buttons, f.num_hats, f.num_balls>>,
         buttons  |-> MapOf(h, f.button_map),
         axes     |-> MapOf(h, f.axis_map),
         hats     |-> MapOf(h, f.hat_map)]

\* the blocks of the descriptor at p
Owned(h, p) ==
    {p[1]} \cup { q[1] : q \in { h[p[1]].f.path, h[p[1]].f.name,
                                 h[p[1]].f.button_map, h[p[1]].f.axis_map,
                                 h[p[1]].f.hat_map } \ {NULL} }

\* C18: right after joy_dev_info_dup(d) the copy holds what d holds, array
\* lengths and elements included, in blocks of its own; and whatever
\* happens to d or to the list afterwards, a copy that is not destroyed
\* keeps everything it holds.
C18_DupIsDeepCopy ==
    /\ []((lastcall.fn = "dup" /\ run = "ok") =>
             /\ Deep(heap, lastcall.newdev) = Deep(heap, lastcall.device)
             /\ Owned(heap, lastcall.newdev)
                    \cap Owned(heap, lastcall.device) = {})
    /\ [][\A p \in rows \cap rows' : Deep(heap', p) = Deep(heap, p)]_vars

\* the second half of C18 by itself
DupCopyStable ==
    [][\A p \in rows \cap rows' : Deep(heap', p) = Deep(heap, p)]_vars

(***************************************************************************)
(* Sorting the list.  joy_sort_devices_list() calls                        *)
(*   qsort(devices_list, sizeof devices_list[0], sizeof devices_list, f)   *)
(* so qsort() is told of sizeof(pointer) elements, whatever the length of  *)
(* the list and its NULL terminator included, and f takes the address of   *)
(* a list slot for the address of a descriptor and compares the bytes it   *)
(* finds there as strings.  The behaviour is undefined: the call may end   *)
(* the program, and when it returns the slots qsort() was told of, those   *)
(* after the end of the list block included, have been permuted in an      *)
(* order the keys of the descriptors have no part in.                      *)
(***************************************************************************)
\* sizeof devices_list[0], the number of elements qsort() is told of
SORT_NMEMB == 8

\* what a slot after the end of the list block holds
WILD == <<0>>

Fields == {"JOY_SORT_GUID", "JOY_SORT_NAME", "JOY_SORT_NODE", "other"}

Count(seq, v) == Cardinality({ i \in DOMAIN seq : seq[i] = v })

\* the cells of the list block after qsort() returned
qsort(cells) ==
    LET k       == IF Len(cells) < SORT_NMEMB THEN Len(cells) ELSE SORT_NMEMB
        told    == SubSeq(cells, 1, k)
        foreign == SORT_NMEMB - k
        vals    == { told[i] : i \in 1 .. k } \cup
                   (IF foreign > 0 THEN {WILD} ELSE {})
        avail(v) == Count(told, v) + (IF v = WILD THEN foreign ELSE 0)
    IN  { c \o SubSeq(cells, k + 1, Len(cells)) :
            c \in { x \in [1 .. k -> vals] :
                      \A v \in vals : Count(x, v) <= avail(v) } }

joy_sort_devices_list(field) ==
    /\ run = "ok"
    /\ IF devices_list = NULL \/ field = "other"
       THEN UNCHANGED <<heap, run>>
       ELSE /\ \E c \in qsort(ListCells) :
                  heap' = [heap EXCEPT ![devices_list[1]].cells = c]
            /\ run' \in {"ok", "crashed"}
    /\ lastcall' = [fn |-> "sort", field |-> field]
    /\ UNCHANGED <<poll_data, fdtable, timer, req, trail, cbs, consumed,
                   devices_list, devices_count, rows>>

NextSort ==
    \/ \E dir \in Dirs : devices_list = NULL /\ joy_scan_devices(dir)
    \/ \E field \in Fields : joy_sort_devices_list(field)

SpecSort == Init /\ [][NextSort]_vars

\* the strings of the model in the order of strcmp()
Collation == <<"-event-joystick", "-event-mouse", "/", "/dev/input/by-id",
               "Pad A", "Pad B", "usb-A", "usb-B", "usb-I", "usb-X">>
StrRank(str) == CHOOSE n \in DOMAIN Collation : Collation[n] = str

\* the key of the descriptor at p as a sequence of numbers
KeyOf(h, p, field) ==
    LET f == h[p[1]].f
    IN  CASE field = "JOY_SORT_GUID" ->
                 [n \in 1 .. 2 * JOY_GUID_SIZE |-> hexval(f.guid_str[n - 1])]
          [] field = "JOY_SORT_NAME" -> <<StrRank(h[f.name[1]].val)>>
          [] OTHER ->
                 [n \in DOMAIN h[f.path[1]].val |->
                     StrRank(h[f.path[1]].val[n])]

\* lexicographic comparison
RECURSIVE LexLeq(_, _)
LexLeq(a, b) ==
    IF a = <<>> THEN TRUE
    ELSE IF b = <<>> THEN FALSE
    ELSE IF Head(a) # Head(b) THEN Head(a) < Head(b)
    ELSE LexLeq(Tail(a), Tail(b))

\* the descriptors of a list: its cells up to the NULL terminator
DevicesIn(cells) ==
    IF \E i \in DOMAIN cells : cells[i] = NULL
    THEN SubSeq(cells, 1,
                (CHOOSE i \in DOMAIN cells :
                    cells[i] = NULL /\ \A j \in 1 .. i - 1 : cells[j] # NULL) - 1)
    ELSE cells

PositionIn(seq, v) == CHOOSE i \in DOMAIN seq : seq[i] = v

\* C20: a sort by guid, name or node path that returns leaves in the list
\* the descriptors it held, each once, in non-decreasing lexicographic
\* order of the key, descriptors with equal keys in their previous order.
C20_SortIsStable ==
    [][\A field \in Fields \ {"other"} :
          (joy_sort_devices_list(field) /\ devices_list # NULL /\ run' = "ok") =>
              LET before == DevicesIn(ListCells)
                  after  == DevicesIn(heap'[devices_list[1]].cells)
                  key(p) == KeyOf(heap, p, field)
              IN  /\ Len(after) = Len(before)
                  /\ { after[i] : i \in DOMAIN after } =
                         { before[i] : i \in DOMAIN before }
                  /\ \A i, j \in DOMAIN after :
                       i < j =>
                         /\ LexLeq(key(after[i]), key(after[j]))
                         /\ key(after[i]) = key(after[j]) =>
                              PositionIn(before, after[i]) <
                                  PositionIn(before, after[j])]_vars

(***************************************************************************)
(* Further properties of the poll engine.                                  *)
(***************************************************************************)
\* C21: a drive cycle of a polling engine (no device pending) that meets a
\* read error on the stream, the device node having gone away, leaves the
\* engine idle.
C21_StreamErrorReturnsToIdle ==
    [][ ( /\ poll_data.state = POLL_STATE_POLL
          /\ poll_data.new_device = NULL
          /\ poll_worker(TRUE, TRUE, <<>>, TRUE) )
        => poll_data'.state = POLL_STATE_IDLE ]_vars

(***************************************************************************)
(* Further properties of the capability scan.                              *)
(***************************************************************************)
\* the elements written to the array at p, in index order, those written
\* past its last element included
Written(h, p) ==
    IF p = NULL THEN <<>>
    ELSE [i \in 1 .. h[p[1]].cap + Cardinality(DOMAIN h[p[1]].over) |->
             load(h[p[1]], i - 1)]

\* C22: after the capability scan num_buttons is the number of codes stored
\* in button_map, the stored codes are the supported key codes from
\* BTN_JOYSTICK on in strictly ascending order, and num_axes is the number
\* of descriptors stored in axis_map.
C22_CountsMatchStored ==
    (lastcall.fn = "probe" /\ lastcall.ok) =>
        LET info   == heap[lastcall.info[1]].f
            stored == Written(heap, info.button_map)
        IN  /\ info.num_buttons = Len(stored)
            /\ Len(stored) = Len(CodesBetween(lastcall.hw.keys, BTN_JOYSTICK,
                                              KEY_MAX))
            /\ \A i \in DOMAIN stored :
                  stored[i] = <<CodesBetween(lastcall.hw.keys, BTN_JOYSTICK,
                                             KEY_MAX)[i]>>
            /\ \A i, j \in DOMAIN stored : i < j => stored[i][1] < stored[j][1]
            /\ info.num_axes = Len(Written(heap, info.axis_map))

\* the part of C22 the scan does satisfy: everything but the button count
StoredButtonsAscending ==
    (lastcall.fn = "probe" /\ lastcall.ok) =>
        LET info   == heap[lastcall.info[1]].f
            stored == Written(heap, info.button_map)
            codes  == CodesBetween(lastcall.hw.keys, BTN_JOYSTICK, KEY_MAX)
        IN  /\ Len(stored) = Len(codes)
            /\ \A i \in DOMAIN stored : stored[i] = <<codes[i]>>
            /\ info.num_axes = Len(Written(heap, info.axis_map))

\* C30: the capability scan writes no element of button_map, axis_map or
\* hat_map at an index that is not below the number of elements allocated
\* for the array, whatever key and absolute codes the device supports.
C30_ScanWritesInBounds ==
    (lastcall.fn = "probe" /\ lastcall.ok) =>
        LET info == heap[lastcall.info[1]].f
        IN  \A p \in {info.button_map, info.axis_map, info.hat_map} \ {NULL} :
                heap[p[1]].over = <<>>

\* the part of C30 the scan does satisfy: the axis and hat arrays
AbsWritesInBounds ==
    (lastcall.fn = "probe" /\ lastcall.ok) =>
        LET info == heap[lastcall.info[1]].f
        IN  \A p \in {info.axis_map, info.hat_map} \ {NULL} :
                heap[p[1]].over = <<>>

\* the callback an event of a type is for, "none" when it is for neither
CallbackFor(type) ==
    IF type = EV_KEY THEN "button" ELSE IF type = EV_ABS THEN "axis" ELSE "none"

\* C23: of the events a polling cycle reads outside a burst, each key event
\* goes to the button callback and to no other, each absolute event to the
\* axis callback and to no other, and an event of another type to neither;
\* when the cycle comes back every event read was so handled and
\* prev_type, prev_code, prev_value are those of the last of them.
C23_ClassifiedByType ==
    Len(trail) = 3 =>
        LET read  == Plain(consumed)
            fwd   == SelectSeq(read, LAMBDA e : CallbackFor(e.type) # "none")
        IN  /\ Len(cbs) <= Len(fwd)
            /\ \A i \in DOMAIN cbs :
                  /\ cbs[i].cb    = CallbackFor(fwd[i].type)
                  /\ cbs[i].code  = fwd[i].code
                  /\ cbs[i].value = fwd[i].value
            /\ run = "ok" =>
                  /\ Len(cbs) = Len(fwd)
                  /\ read # <<>> =>
                        /\ poll_data.prev_type  = read[Len(read)].type
                        /\ poll_data.prev_code  = read[Len(read)].code
                        /\ poll_data.prev_value = read[Len(read)].value

\* a cycle that read a key event, a report marker and an absolute event
C23_Witness ==
    /\ run = "ok" /\ Len(trail) = 3
    /\ Len(consumed) = 3
    /\ \A i \in 1 .. 3 : ~consumed[i].sync
    /\ consumed[1].type = EV_KEY
    /\ consumed[2].type = EV_SYN
    /\ consumed[3].type = EV_ABS
    /\ Len(cbs) = 2 /\ cbs[1].cb = "button" /\ cbs[2].cb = "axis"
    /\ poll_data.prev_type = EV_ABS

\* C24: after a stop_poll() made while the engine was idle no drive cycle
\* closes a descriptor or fires on_poll_stopped(), and no drive cycle ever
\* closes a descriptor other than one opened on a device node by a
\* Starting cycle.
C24_StopInIdleIsNoOp ==
    /\ [][ (req.op = "stop" /\ req.pre = POLL_STATE_IDLE /\ Cycle)
           => ( /\ DOMAIN fdtable \subseteq DOMAIN fdtable'
                /\ \A i \in DOMAIN cbs' : cbs'[i] # on_poll_stopped ) ]_vars
    /\ [][ Cycle => \A f \in DOMAIN fdtable \ DOMAIN fdtable' :
                        fdtable[f] # 0 ]_vars

(***************************************************************************)
(* The engine on the descriptors of the device list.  The rows own         *)
(* copies of the scanned descriptors and free them when they are           *)
(* destroyed; expanding a row hands the row's copy to the engine, which    *)
(* keeps the pointer in new_device and cur_device.  A drive cycle reads    *)
(* the descriptor it is given (new_device->name in the IDLE case,          *)
(* cur_device->path in the START case); reading one that was freed is      *)
(* undefined behaviour.  The streams deliver no events here.               *)
(***************************************************************************)
\* the row asks the engine to poll its device
on_expander_expanded(data) ==
    /\ data \in rows
    /\ event_widget_start_poll(data[1])

\* the descriptors a drive cycle reads
ReadBy(pd) ==
    IF preempt(pd).state = POLL_STATE_IDLE /\ pd.new_device # NULL
    THEN {pd.new_device}
    ELSE IF preempt(pd).state = POLL_STATE_START THEN {pd.cur_device}
    ELSE {}

\* the descriptor at p is allocated
Live(p) == p[1] \in DOMAIN heap /\ heap[p[1]].kind = "info"

poll_worker_rows(openOk, initOk) ==
    /\ run = "ok"
    /\ timer
    /\ \E r \in {worker(poll_data, fdtable, openOk, initOk, <<>>, FALSE)} :
           /\ poll_data' = r.pd
           /\ fdtable'   = r.fds
           /\ cbs'       = r.cbs
           /\ consumed'  = <<>>
           /\ timer'     = ~r.remove
           /\ run'       \in Survives(\E p \in ReadBy(poll_data) : ~Live(p))
           /\ trail'     = IF Len(trail) < MaxObserved
                           THEN Append(trail, r.note)
                           ELSE trail
    /\ UNCHANGED req
    /\ UNCHANGED joyvars

NextRows ==
    \/ \E dir \in Dirs : devices_list = NULL /\ joy_scan_devices(dir)
    \/ \E i \in DOMAIN ListCells : box_row_new(i)
    \/ \E data \in rows : on_expander_destroy(data)
    \/ \E data \in rows : on_expander_expanded(data)
    \/ \E openOk, initOk \in OpenResults : poll_worker_rows(openOk, initOk)

SpecRows == Init /\ [][NextRows]_vars

\* the descriptors the engine holds
HeldDevices == {poll_data.new_device, poll_data.cur_device} \ {NULL}

C25_StopCancelsPendingBegin ==
    [][ (req.op = "stop" /\ poll_data.new_device # NULL /\ Cycle)
        => ~ ( /\ poll_data'.state \in {POLL_STATE_START, POLL_STATE_POLL}
               /\ poll_data'.cur_device = poll_data.new_device ) ]_vars

(***************************************************************************)
(* The engine with its timer: GLib calls poll_worker() again and again     *)
(* for as long as the timeout source exists and the main loop runs, so a   *)
(* drive cycle that can be taken is eventually taken.                      *)
(***************************************************************************)
SpecLive == Init /\ [][Next]_vars /\ WF_vars(drive)

\* the last request was begin_poll(d), some drive cycle has followed it (a
\* request empties the trail) and no cycle since has failed to open the stream
BeginStands(d) ==
    /\ req.op = "begin" /\ req.dev = d
    /\ trail # <<>>
    /\ \A i \in DOMAIN trail : trail[i] # "failed"

PollingOf(d) ==
    /\ poll_data.state = POLL_STATE_POLL
    /\ poll_data.cur_device = <<d>>
    /\ poll_data.new_device = NULL

\* C26: when from some point on begin_poll(d) stays the last request made,
\* in whatever state it was made, and the stream opens, then from some
\* point on the engine is polling d with no device pending.
C26_BeginNeverLost ==
    \A d \in Devices : (<>[]BeginStands(d)) => (<>[]PollingOf(d))

\* a begin_poll made while another device was being started, now polling
C26_Witness ==
    /\ req.op = "begin" /\ req.pre = POLL_STATE_START /\ req.precur # req.dev
    /\ trail = <<"stopped", "bound", "ready">>
    /\ PollingOf(req.dev)

\* C27: a drive cycle that leaves the engine in Idle leaves it with no
\* current device, a cycle whose Starting attempt failed included.
C27_IdleHasNoCurrentDevice ==
    [][ (Cycle /\ poll_data'.state = POLL_STATE_IDLE)
        => poll_data'.cur_device = NULL ]_vars

\* the code of event e is in no map of device d's descriptor
Unmapped(d, e) ==
    \/ e.type = EV_KEY /\ \A i \in DOMAIN button_map(d) : button_map(d)[i] # e.code
    \/ e.type = EV_ABS /\ \A i \in DOMAIN axis_map(d) : axis_map(d)[i] # e.code

\* C29: a polling cycle that reads, outside a burst, a key or absolute
\* event whose code the current device's map lacks comes back from the
\* dispatch, and the callback it made for that event set no widget.
C29_UnmappedCodeIgnored ==
    ( /\ Len(trail) = 3
      /\ poll_data.cur_device # NULL
      /\ \E i \in DOMAIN Plain(consumed) :
            Unmapped(poll_data.cur_device[1], Plain(consumed)[i]) )
    => /\ run = "ok"
       /\ \A j \in DOMAIN cbs :
            ( /\ cbs[j].cb \in {"button", "axis"}
              /\ Unmapped(poll_data.cur_device[1],
                          [type |-> IF cbs[j].cb = "button" THEN EV_KEY ELSE EV_ABS,
                           code |-> cbs[j].code]) )
            => ~cbs[j].set

\* the part of C29 that holds: with an empty map the scan ends at once
UnmappedCodeEmptyMap ==
    ( /\ Len(trail) = 3
      /\ poll_data.cur_device # NULL
      /\ num_buttons(poll_data.cur_device[1]) = 0
      /\ \A i \in DOMAIN Plain(consumed) : Plain(consumed)[i].type # EV_ABS )
    => /\ run = "ok"
       /\ \A j \in DOMAIN cbs : ~cbs[j].set

====
